---- MODULE Spec2Model ----
(***************************************************************************)
(* The PDS3 part of the notebook PSA_TAP_AS_Forum_short.ipynb: the cells   *)
(* that fetch a zipped product, locate the entry under DATA, read its      *)
(* attached label up to END, parse it, compute the image offset and        *)
(* unpack the 16-bit little-endian image.  The notebook's global names     *)
(* are the variables; one action per cell (read_label is split at its      *)
(* loop head, one action per iteration).                                    *)
(***************************************************************************)
EXTENDS Integers, Sequences, FiniteSets, TLC

\* ------------------------------------------------------------------ bounds
MaxListing == 3   \* entries in a zip listing
MaxLines   == 3   \* lines in a label entry
MaxData    == 4   \* bytes of image data in a buffer
MaxP       == 2   \* ^IMAGE record pointer
MaxR       == 2   \* RECORD_BYTES
MaxDim     == 2   \* LINES, LINE_SAMPLES

\* ------------------------------------------------------------- option type
None == <<>>
Some(v) == <<v>>
Get(o) == o[1]

\* ------------------------------------------------------------------ paths
\* A path is the sequence of its characters.
pData   == <<"A", "/", "D", "A", "T", "A", "/", "x">>
pData2  == <<"A", "/", "D", "A", "T", "A", "/", "y">>
pBrowse == <<"A", "/", "B", "/", "x">>
pTop    == <<"x">>
pFirst  == <<"D", "A", "T", "A", "/", "A", "/", "x">>
pNear   == <<"A", "/", "D", "A", "T", "/", "x">>
pDot    == <<"A", "/", ".", "/", "D", "A", "T", "A", "/", "x">>
PathSet == {pData, pData2, pBrowse, pTop, pFirst, pNear, pDot}
DATA == <<"D", "A", "T", "A">>

\* The pieces of p between slashes, empty pieces included.
RECURSIVE SplitSlash(_)
SplitSlash(p) ==
    IF \A i \in 1..Len(p) : p[i] # "/" THEN <<p>>
    ELSE LET k == CHOOSE i \in 1..Len(p) :
                      p[i] = "/" /\ \A j \in 1..(i - 1) : p[j] # "/"
         IN  <<SubSeq(p, 1, k - 1)>> \o SplitSlash(SubSeq(p, k + 1, Len(p)))

\* PurePath(p).parts of a POSIX path: the root, if any, then the segments
\* that are neither empty nor ".".
IsSegment(s) == s # <<>> /\ s # <<".">>
Root(p) ==
    IF Len(p) >= 1 /\ p[1] = "/"
    THEN IF Len(p) >= 2 /\ p[2] = "/" /\ ~(Len(p) >= 3 /\ p[3] = "/")
         THEN << <<"/", "/">> >>
         ELSE << <<"/">> >>
    ELSE <<>>
Parts(p) == Root(p) \o SelectSeq(SplitSlash(p), IsSegment)

\* ------------------------------------------------------------ zip archive
\* An archive is the sequence of its entries, [name, bytes], in listing order.
NameList(z) == [i \in 1..Len(z) |-> z[i].name]
HasEntry(z, name) == \E i \in 1..Len(z) : z[i].name = name
\* ZipFile.open(name).read(): the entry stored last under that name.
EntryBytes(z, name) ==
    LET k == CHOOSE i \in 1..Len(z) :
                 z[i].name = name /\ \A j \in (i + 1)..Len(z) : z[j].name # name
    IN  z[k].bytes

\* ------------------------------------------------------- bytes and text
\* bytes.decode('utf8') on the bytes the model uses: the ASCII ones map to
\* their character, 255 is never valid UTF-8.
Chr == (0 :> "NUL") @@ (1 :> "SOH") @@ (10 :> "\n") @@ (13 :> "\r") @@
       (32 :> " ") @@ (49 :> "1") @@ (50 :> "2") @@ (61 :> "=") @@ (65 :> "A") @@
       (66 :> "B") @@ (68 :> "D") @@ (69 :> "E") @@ (78 :> "N") @@ (95 :> "_")
Decodable(bs) == \A i \in 1..Len(bs) : bs[i] < 128
Decode(bs) == [i \in 1..Len(bs) |-> Chr[bs[i]]]

\* f.readline() with the stream at pos (bytes already consumed): the bytes
\* up to and including the next newline, or up to the end; empty at the end.
ReadLine(bs, pos) ==
    LET rest == SubSeq(bs, pos + 1, Len(bs))
        nl   == {i \in 1..Len(rest) : rest[i] = 10}
    IN  IF nl = {} THEN rest
        ELSE SubSeq(rest, 1, CHOOSE i \in nl : \A j \in nl : i <= j)

\* str.strip(): leading and trailing whitespace removed.
IsSpace(c) == c \in {" ", "\t", "\n", "\r", "\f"}
RECURSIVE LStrip(_)
LStrip(s) == IF s # <<>> /\ IsSpace(s[1]) THEN LStrip(Tail(s)) ELSE s
RECURSIVE RStrip(_)
RStrip(s) ==
    IF s # <<>> /\ IsSpace(s[Len(s)]) THEN RStrip(SubSeq(s, 1, Len(s) - 1)) ELSE s
Strip(s) == RStrip(LStrip(s))

END == <<"E", "N", "D">>
CRLF == <<"\r", "\n">>
\* '\r\n'.join(lines)
RECURSIVE Join(_)
Join(lines) ==
    IF lines = <<>> THEN <<>>
    ELSE IF Len(lines) = 1 THEN lines[1]
    ELSE lines[1] \o CRLF \o Join(Tail(lines))

\* ---------------------------------------------------------------- inputs
RECURSIVE SeqsUpTo(_, _)
SeqsUpTo(S, n) ==
    IF n = 0 THEN {<<>>}
    ELSE LET shorter == SeqsUpTo(S, n - 1)
         IN  shorter \cup {Append(s, x) : s \in shorter, x \in S}

\* Raw label lines, without their newline.
RawLines ==
    { <<>>,                        \* blank
      <<32, 13>>,                  \* " \r": whitespace only
      <<69, 78, 68>>,              \* "END"
      <<32, 69, 78, 68, 13>>,      \* " END\r"
      <<69, 78, 68, 95, 65>>,      \* "END_A"
      <<65, 32, 69, 78, 68>>,      \* "A END"
      <<65, 61, 49>>,              \* "A=1"
      <<32, 66, 32>>,              \* " B "
      <<255>> }                    \* binary
RECURSIVE JoinNL(_)
JoinNL(ls) ==
    IF ls = <<>> THEN <<>>
    ELSE IF Len(ls) = 1 THEN ls[1]
    ELSE ls[1] \o <<10>> \o JoinNL(Tail(ls))
\* Entries of up to MaxLines lines, the last with or without its newline.
\* "A = 1\nB = 2\n\nEND\n"
ExampleLabel ==
    <<65, 32, 61, 32, 49, 10, 66, 32, 61, 32, 50, 10, 10, 69, 78, 68, 10>>
LabelEntries ==
    LET texts == {JoinNL(ls) : ls \in SeqsUpTo(RawLines, MaxLines)}
    IN  texts \cup {Append(t, 10) : t \in texts} \cup {ExampleLabel}

\* "A=1", "END", then four bytes of image.
GoodEntry == <<65, 61, 49, 10, 69, 78, 68, 10, 1, 0, 255, 255>>
Listings == SeqsUpTo(PathSet, MaxListing)
\* The products the flow is run on: every listing over healthy entries, and
\* the observed listing (data file, then browse) over every label entry.
ListingArchives ==
    {[i \in 1..Len(l) |-> [name |-> l[i], bytes |-> GoodEntry]] : l \in Listings}
LabelArchives ==
    {<<[name |-> pData, bytes |-> e], [name |-> pBrowse, bytes |-> <<>>]>> :
        e \in LabelEntries}
Archives == ListingArchives \cup LabelArchives

VARIABLES
    pc,         \* the cell (or point of read_label) that runs next
    err,        \* the exception that stopped the run, None while it runs
    r,          \* the response fetched last, named by its URL
    zip,        \* the open archive
    zipfiles,   \* zip.namelist()
    data_file,  \* the located entry's name
    pos,        \* read_label: bytes of the entry consumed by f
    nread,      \* read_label: readline() calls made on f
    line,       \* read_label: the current decoded line
    lines,      \* read_label: its local list, label
    handles,    \* entry handles open on zip
    label,      \* the label text read_label returned
    meta,       \* the parsed label
    offset, rows, cols, samples,
    data        \* the decoded image

vars == <<pc, err, r, zip, zipfiles, data_file, pos, nread, line, lines, handles,
          label, meta, offset, rows, cols, samples, data>>

MaxReads == MaxLines + 3

\* raise exc: the cell stops and the run with it.
Raise(exc) == pc' = "failed" /\ err' = Some(exc)

Init ==
    /\ pc = "fetch" /\ err = None /\ r = None
    /\ zip = <<>> /\ zipfiles = <<>> /\ data_file = None
    /\ pos = 0 /\ nread = 0 /\ line = <<>> /\ lines = <<>> /\ handles = 0
    /\ label = None /\ meta = None
    /\ offset = None /\ rows = None /\ cols = None /\ samples = None
    /\ data = None

\* r = requests.get(url=access_url); zip = zipfile.ZipFile(BytesIO(r.content))
\* zipfiles = zip.namelist()
Fetch ==
    /\ pc = "fetch"
    /\ r' = Some("access_url")
    /\ \E z \in Archives : zip' = z /\ zipfiles' = NameList(z)
    /\ pc' = "locate"
    /\ UNCHANGED <<err, data_file, pos, nread, line, lines, handles, label, meta,
                   offset, rows, cols, samples, data>>

\* zipfiles[:-1]
AllButLast(l) == SubSeq(l, 1, Len(l) - 1)
IsData(p) == Parts(p)[2] = DATA
\* The locator falling back on the first entry when nothing matches (a
\* plausible slip, a variant the claims must tell apart from the code).
LocatorFallback(l) ==
    LET cands == AllButLast(l)
    IN  IF \E i \in 1..Len(cands) : Len(Parts(cands[i])) < 2
        THEN [ok |-> FALSE, exc |-> "IndexError"]
        ELSE LET found == SelectSeq(cands, IsData)
             IN  IF found = <<>> /\ l = <<>> THEN [ok |-> FALSE, exc |-> "IndexError"]
                 ELSE [ok |-> TRUE, file |-> (found \o l)[1]]
\* [file for file in zipfiles[:-1] if PurePath(file).parts[1]=='DATA'][0]:
\* the outcome is the file, or the IndexError of parts[1] or of [0].
Locator(l) ==
    LET cands == AllButLast(l)
    IN  IF \E i \in 1..Len(cands) : Len(Parts(cands[i])) < 2
        THEN [ok |-> FALSE, exc |-> "IndexError"]
        ELSE LET found == SelectSeq(cands, IsData)
             IN  IF found = <<>> THEN [ok |-> FALSE, exc |-> "IndexError"]
                 ELSE [ok |-> TRUE, file |-> found[1]]

Locate ==
    /\ pc = "locate"
    /\ LET found == Locator(zipfiles)
       IN  IF found.ok
           THEN data_file' = Some(found.file) /\ pc' = "read_label" /\ err' = err
           ELSE data_file' = data_file /\ Raise(found.exc)
    /\ UNCHANGED <<r, zip, zipfiles, pos, nread, line, lines, handles, label, meta,
                   offset, rows, cols, samples, data>>

\* ------------------------------------------------------------ read_label
Entry == EntryBytes(zip, Get(data_file))
\* The sentinel matched as a prefix, startswith('END') (a plausible slip, a
\* variant the claims must tell apart from the code).
IsTerminatorPrefix(l) == Len(Strip(l)) >= 3 /\ SubSeq(Strip(l), 1, 3) = END
\* line.strip() != 'END', negated
IsTerminator(l) == Strip(l) = END
IsBlank(l) == Strip(l) = <<>>

\* line = f.readline().decode('utf8'), inside the with block: an undecodable
\* line raises, and leaving the block closes f.
ReadNext(at) ==
    LET raw == ReadLine(Entry, at)
    IN  /\ nread' = nread + 1
        /\ pos' = at + Len(raw)
        /\ IF Decodable(raw)
           THEN line' = Decode(raw) /\ pc' = "loop" /\ err' = err
                /\ handles' = 1
           ELSE line' = line /\ Raise("UnicodeDecodeError") /\ handles' = 0

\* label = []; with zip.open(data_file) as f: line = f.readline().decode(..)
ReadLabelCall ==
    /\ pc = "read_label"
    /\ lines' = <<>>
    /\ ReadNext(0)
    /\ UNCHANGED <<r, zip, zipfiles, data_file, label, meta, offset, rows, cols,
                   samples, data>>

\* One turn of the while loop on a blank line.
LoopSkip ==
    /\ pc = "loop" /\ nread < MaxReads
    /\ ~IsTerminator(line) /\ IsBlank(line)
    /\ lines' = lines
    /\ ReadNext(pos)
    /\ UNCHANGED <<r, zip, zipfiles, data_file, label, meta, offset, rows, cols,
                   samples, data>>

\* One turn of the while loop on any other line.
LoopAppend ==
    /\ pc = "loop" /\ nread < MaxReads
    /\ ~IsTerminator(line) /\ ~IsBlank(line)
    /\ lines' = Append(lines, Strip(line))
    /\ ReadNext(pos)
    /\ UNCHANGED <<r, zip, zipfiles, data_file, label, meta, offset, rows, cols,
                   samples, data>>

\* The loop ends on END: f is closed, and label = read_label(data_file).
LoopExit ==
    /\ pc = "loop"
    /\ IsTerminator(line)
    /\ handles' = 0
    /\ label' = Some(Join(lines))
    /\ pc' = "parse"
    /\ UNCHANGED <<err, r, zip, zipfiles, data_file, pos, nread, line, lines, meta,
                   offset, rows, cols, samples, data>>

\* ----------------------------------------------------------------- parse
\* The parsed label, as far as the notebook reads it.
Meta(P, R, L, S) ==
    ("^IMAGE" :> P) @@ ("RECORD_BYTES" :> R) @@
    ("IMAGE" :> (("LINES" :> L) @@ ("LINE_SAMPLES" :> S)))
Without(m, k) == [x \in DOMAIN m \ {k} |-> m[x]]
Incomplete(m) ==
    { Without(m, "^IMAGE"), Without(m, "RECORD_BYTES"), Without(m, "IMAGE"),
      [m EXCEPT !["IMAGE"] = Without(@, "LINES")],
      [m EXCEPT !["IMAGE"] = Without(@, "LINE_SAMPLES")] }
\* What pvl.loads may hand back for a label of GoodEntry's kind.
FlowMetas ==
    LET good == Meta(2, 8, 1, 2)
    IN  {good, Meta(2, 8, 2, 2), Meta(0, 4, 1, 2)} \cup Incomplete(good)

\* meta = pvl.loads(label)
Parse ==
    /\ pc = "parse"
    /\ \E m \in FlowMetas : meta' = Some(m)
    /\ pc' = "offset"
    /\ UNCHANGED <<err, r, zip, zipfiles, data_file, pos, nread, line, lines, handles,
                   label, offset, rows, cols, samples, data>>

\* ---------------------------------------------------------------- unpack
\* The pointer taken as 0-based (a plausible slip, a variant the claims must tell apart from the code).
ByteOffsetZeroBased(P, R) == P * R
\* (meta['^IMAGE']-1) * meta['RECORD_BYTES']
ByteOffset(P, R) == (P - 1) * R

\* offset = (meta['^IMAGE']-1) * meta['RECORD_BYTES']
OffsetCell ==
    /\ pc = "offset"
    /\ LET m == Get(meta)
       IN  IF {"^IMAGE", "RECORD_BYTES"} \subseteq DOMAIN m
           THEN /\ offset' = Some(ByteOffset(m["^IMAGE"], m["RECORD_BYTES"]))
                /\ pc' = "samples" /\ err' = err
           ELSE offset' = offset /\ Raise("KeyError")
    /\ UNCHANGED <<r, zip, zipfiles, data_file, pos, nread, line, lines, handles,
                   label, meta, rows, cols, samples, data>>

\* rows = meta['IMAGE']['LINES']; cols = meta['IMAGE']['LINE_SAMPLES'];
\* samples = rows * cols
SamplesCell ==
    /\ pc = "samples"
    /\ LET m == Get(meta)
       IN  IF "IMAGE" \notin DOMAIN m \/ "LINES" \notin DOMAIN m["IMAGE"]
           THEN Raise("KeyError") /\ UNCHANGED <<rows, cols, samples>>
           ELSE IF "LINE_SAMPLES" \notin DOMAIN m["IMAGE"]
           THEN /\ Raise("KeyError")
                /\ rows' = Some(m["IMAGE"]["LINES"])
                /\ UNCHANGED <<cols, samples>>
           ELSE /\ rows' = Some(m["IMAGE"]["LINES"])
                /\ cols' = Some(m["IMAGE"]["LINE_SAMPLES"])
                /\ samples' = Some(m["IMAGE"]["LINES"] * m["IMAGE"]["LINE_SAMPLES"])
                /\ pc' = "unpack" /\ err' = err
    /\ UNCHANGED <<r, zip, zipfiles, data_file, pos, nread, line, lines, handles,
                   label, meta, offset, data>>

\* struct.unpack_from('<%dH' % n, buf, off) without its bounds checks: the
\* values that fit (a plausible slip, a variant the claims must tell apart from the code).
UnpackFromLenient(n, buf, off) ==
    LET at  == IF off < 0 THEN 0 ELSE off
        fit == IF Len(buf) - at >= 2 * n THEN n
               ELSE IF Len(buf) > at THEN (Len(buf) - at) \div 2 ELSE 0
    IN  [ok |-> TRUE,
         vals |-> [k \in 1..fit |-> buf[at + 2 * k - 1] + 256 * buf[at + 2 * k]]]
\* struct.unpack_from('<%dH' % n, buf, off): n unsigned 16-bit little-endian
\* values from byte off on; a negative off counts from the end of buf.
UnpackFrom(n, buf, off) ==
    LET size == 2 * n
        bad  == [ok |-> FALSE, exc |-> "struct.error"]
        at   == IF off < 0 THEN off + Len(buf) ELSE off
    IN  IF off < 0 /\ (off + size > 0 \/ off + Len(buf) < 0) THEN bad
        ELSE IF Len(buf) - at < size THEN bad
        ELSE [ok |-> TRUE,
              vals |-> [k \in 1..n |-> buf[at + 2 * k - 1] + 256 * buf[at + 2 * k]]]

\* reshape in Fortran order (a plausible slip, a variant the claims must tell apart from the code).
ReshapeF(flat, d1, d2) ==
    IF Len(flat) # d1 * d2 THEN [ok |-> FALSE, exc |-> "ValueError"]
    ELSE [ok |-> TRUE,
          array |-> [shape |-> <<d1, d2>>,
                     grid |-> [i \in 1..d1 |->
                                 [j \in 1..d2 |-> flat[(j - 1) * d1 + i]]]]]
\* np.array(flat).reshape((d1, d2)): d1 rows of d2 values, in C order.
Reshape(flat, d1, d2) ==
    IF Len(flat) # d1 * d2 THEN [ok |-> FALSE, exc |-> "ValueError"]
    ELSE [ok |-> TRUE,
          array |-> [shape |-> <<d1, d2>>,
                     grid |-> [i \in 1..d1 |->
                                 [j \in 1..d2 |-> flat[(i - 1) * d2 + j]]]]]

\* The entry read on from where read_label's handle stopped (a plausible
\* slip, a variant the claims must tell apart from the code).
EntryReadFromPos == SubSeq(Entry, pos + 1, Len(Entry))
\* zip.open(data_file).read(): a fresh handle, read to the end, dropped at once.
EntryRead == Entry

\* data = struct.unpack_from('<%dH' % samples, zip.open(data_file).read(), offset)
\* data = np.array(data).reshape((cols, rows))
\* The cell's effect; on success the notebook goes on at cell `after`.
RunUnpack(after) ==
    /\ IF ~HasEntry(zip, Get(data_file)) THEN data' = data /\ Raise("KeyError")
       ELSE LET u == UnpackFrom(Get(samples), EntryRead, Get(offset))
            IN  IF ~u.ok THEN data' = data /\ Raise(u.exc)
                ELSE LET a == Reshape(u.vals, Get(cols), Get(rows))
                     IN  IF ~a.ok
                         THEN /\ data' = Some([shape |-> <<Len(u.vals)>>,
                                               grid |-> u.vals])
                              /\ Raise(a.exc)
                         ELSE data' = Some(a.array) /\ pc' = after /\ err' = err
    /\ UNCHANGED <<r, zip, zipfiles, data_file, pos, nread, line, lines, handles,
                   label, meta, offset, rows, cols, samples>>

UnpackCell == pc = "unpack" /\ RunUnpack("done")

\* The same cell run again, as a notebook allows, on the globals as they are.
RerunUnpack == pc \in {"done", "rebound"} /\ RunUnpack("done")

\* ------------------------------------------------------------------ PDS4
\* What the second download may hold: no entry of the located name, the
\* same entry, or other bytes under that name.
Pds4Archives ==
    { <<[name |-> pTop, bytes |-> <<1, 0>>], [name |-> pBrowse, bytes |-> <<>>]>>,
      <<[name |-> pData, bytes |-> GoodEntry]>>,
      <<[name |-> pData, bytes |-> <<0, 0, 0, 0, 0, 0, 0, 0, 255, 255, 1, 0>>],
        [name |-> pBrowse, bytes |-> <<>>]>> }

\* r = requests.get(url=mcam.iloc[-1].access_url)
\* zip = zipfile.ZipFile(BytesIO(r.content)); zipfiles = zip.namelist()
Rebind ==
    /\ pc = "done" /\ r = Some("access_url")
    /\ r' = Some("mcam")
    /\ \E z \in Pds4Archives : zip' = z /\ zipfiles' = NameList(z)
    /\ pc' = "rebound"
    /\ UNCHANGED <<err, data_file, pos, nread, line, lines, handles, label, meta,
                   offset, rows, cols, samples, data>>

Next ==
    \/ Fetch \/ Locate
    \/ ReadLabelCall \/ LoopSkip \/ LoopAppend \/ LoopExit
    \/ Parse \/ OffsetCell \/ SamplesCell \/ UnpackCell
    \/ RerunUnpack \/ Rebind

Spec == Init /\ [][Next]_vars

\* ------------------------------------------------- the unpacker on its own
\* The cells from offset on, over any buffer and any parsed label.
\* Four little-endian samples: 10, 20, 30, 40.
ExampleImage == <<10, 0, 20, 0, 30, 0, 40, 0>>
Buffers == SeqsUpTo({0, 1, 255}, MaxData) \cup {ExampleImage}
Metas ==
    {Meta(P, R, L, S) : P \in 0..MaxP, R \in 0..MaxR,
                        L \in 0..MaxDim, S \in 0..MaxDim}
    \cup {Meta(3, 100, 1, 1)} \cup Incomplete(Meta(1, 0, 1, 1))

InitUnpack ==
    /\ pc = "offset" /\ err = None /\ r = Some("access_url")
    /\ \E b \in Buffers :
          zip = <<[name |-> pData, bytes |-> b], [name |-> pBrowse, bytes |-> <<>>]>>
    /\ zipfiles = <<pData, pBrowse>> /\ data_file = Some(pData)
    /\ pos = 0 /\ nread = 0 /\ line = <<>> /\ lines = <<>> /\ handles = 0
    /\ label = None
    /\ \E m \in Metas : meta = Some(m)
    /\ offset = None /\ rows = None /\ cols = None /\ samples = None
    /\ data = None

NextUnpack == OffsetCell \/ SamplesCell \/ UnpackCell

SpecUnpack == InitUnpack /\ [][NextUnpack]_vars

\* ================================================================ claims
\* The entry's line sequence: each line with its newline, the last perhaps
\* without one.
RECURSIVE EntryLines(_)
EntryLines(bs) ==
    IF bs = <<>> THEN <<>>
    ELSE LET nl == {i \in 1..Len(bs) : bs[i] = 10}
         IN  IF nl = {} THEN <<bs>>
             ELSE LET k == CHOOSE i \in nl : \A j \in nl : i <= j
                  IN  <<SubSeq(bs, 1, k)>> \o EntryLines(SubSeq(bs, k + 1, Len(bs)))
IsEndLine(raw) == Decodable(raw) /\ Strip(Decode(raw)) = END
EndLines(bs) == {i \in 1..Len(EntryLines(bs)) : IsEndLine(EntryLines(bs)[i])}
HasEndLine(bs) == EndLines(bs) # {}
FirstEnd(bs) == CHOOSE i \in EndLines(bs) : \A j \in EndLines(bs) : i <= j
\* The lines before the first END line are text.
TextUpToEnd(bs) == \A i \in 1..(FirstEnd(bs) - 1) : Decodable(EntryLines(bs)[i])
NonEmpty(s) == s # <<>>
ExpectedLabel(bs) ==
    LET ls == EntryLines(bs)
        trimmed == [i \in 1..(FirstEnd(bs) - 1) |-> Strip(Decode(ls[i]))]
    IN  Join(SelectSeq(trimmed, NonEmpty))
\* The first product, the PDS3 one, is the one at hand.
Pds3 == r = Some("access_url")
InReader == pc \in {"read_label", "loop"}
ReaderLeft == data_file # None /\ ~InReader

\* C1: for an entry of text lines with a line that trims to END, read_label
\* returns the trimmed non-blank lines before the first such line, in order,
\* joined with CRLF; it reads no line past that END line.
C1_LabelUpToFirstEnd ==
    (Pds3 /\ data_file # None /\ HasEndLine(Entry) /\ TextUpToEnd(Entry)) =>
        /\ ReaderLeft => label = Some(ExpectedLabel(Entry))
        /\ nread <= FirstEnd(Entry)
\* C1 witness: the label "A = 1\nB = 2\n\nEND\n" has been read as its two lines.
C1_Witness ==
    /\ pc = "parse" /\ Entry = ExampleLabel
    /\ lines = << <<"A", " ", "=", " ", "1">>, <<"B", " ", "=", " ", "2">> >>
    /\ label = Some(<<"A", " ", "=", " ", "1", "\r", "\n", "B", " ", "=", " ", "2">>)

\* C2: for an entry with no line that trims to END, read_label returns no
\* label, and once a read has hit the end of the entry its next step raises.
C2_MalformedLabelReported ==
    /\ []((Pds3 /\ data_file # None /\ ~HasEndLine(Entry)) => label = None)
    /\ [][(pc = "loop" /\ ~HasEndLine(Entry) /\ line = <<>>)
            => (pc' = "failed" /\ err' # None)]_vars

\* ---------------------------------------------------------------- locator
SecondIsData(p) == Len(Parts(p)) >= 2 /\ Parts(p)[2] = DATA
DataEntries(l) == {i \in 1..Len(l) : SecondIsData(l[i])}
LocatorRan == Pds3 /\ pc \notin {"fetch", "locate"}

\* C3: when exactly one path of the listing has DATA as its second segment,
\* the locator returns that path, wherever it stands and whatever the other
\* entries are.
C3_LocatorReturnsTheDataPath ==
    (LocatorRan /\ Cardinality(DataEntries(zipfiles)) = 1) =>
        \E i \in DataEntries(zipfiles) : data_file = Some(zipfiles[i])

\* C4: when no path of the listing has DATA as its second segment, the
\* locator fails (IndexError), no entry is selected, and neither the label
\* reader nor the unpacker runs.
C4_NoDataIsAnError ==
    (LocatorRan /\ DataEntries(zipfiles) = {}) =>
        /\ pc = "failed" /\ err = Some("IndexError")
        /\ data_file = None
        /\ nread = 0 /\ handles = 0 /\ label = None /\ data = None
\* C4 witness: a listing of three entries, none under DATA, has failed.
C4_Witness ==
    /\ pc = "failed" /\ err = Some("IndexError")
    /\ zipfiles = <<pBrowse, pNear, pFirst>>

\* --------------------------------------------------------------- unpacker
MetaComplete ==
    /\ meta # None
    /\ {"^IMAGE", "RECORD_BYTES", "IMAGE"} \subseteq DOMAIN Get(meta)
    /\ {"LINES", "LINE_SAMPLES"} \subseteq DOMAIN Get(meta)["IMAGE"]
mP == Get(meta)["^IMAGE"]
mR == Get(meta)["RECORD_BYTES"]
mL == Get(meta)["IMAGE"]["LINES"]
mS == Get(meta)["IMAGE"]["LINE_SAMPLES"]
\* Sample k (from 0) of the 16-bit little-endian values of b from byte off.
Sample(b, off, k) == b[off + 2 * k + 1] + 256 * b[off + 2 * k + 2]
\* Where the decode starts: a negative offset counts from the end.
Start == IF Get(offset) < 0 THEN Get(offset) + Len(Entry) ELSE Get(offset)
RECURSIVE Ravel(_)
Ravel(g) == IF g = <<>> THEN <<>> ELSE g[1] \o Ravel(Tail(g))
RECURSIVE EncodeLE(_)
EncodeLE(v) ==
    IF v = <<>> THEN <<>> ELSE <<v[1] % 256, v[1] \div 256>> \o EncodeLE(Tail(v))

\* C5 as claimed: the grid is S by L and holds the samples in column-major
\* order, grid[i][j] = v[i + j*S].
C5_ColumnMajor ==
    pc = "done" =>
        /\ Get(data).shape = <<mS, mL>>
        /\ \A i \in 0..(mS - 1), j \in 0..(mL - 1) :
               Get(data).grid[i + 1][j + 1] = Sample(Entry, Start, i + j * mS)
\* C5 as amended: the grid is S by L and holds the samples in row-major (C)
\* order, grid[i][j] = v[i*L + j]; 10, 20, 30, 40 with P=1, R=0, L=2, S=2
\* give [[10,20],[30,40]].
C5_RowMajor ==
    pc = "done" =>
        /\ Get(data).shape = <<mS, mL>>
        /\ Len(Get(data).grid) = mS
        /\ \A i \in 0..(mS - 1) : Len(Get(data).grid[i + 1]) = mL
        /\ \A i \in 0..(mS - 1), j \in 0..(mL - 1) :
               Get(data).grid[i + 1][j + 1] = Sample(Entry, Start, i * mL + j)
        /\ (Entry = ExampleImage /\ Get(meta) = Meta(1, 0, 2, 2)) =>
               Get(data).grid = << <<10, 20>>, <<30, 40>> >>
\* C5 witness: the example has been decoded.
C5_Witness ==
    /\ pc = "done" /\ Entry = ExampleImage /\ Get(meta) = Meta(1, 0, 2, 2)
    /\ data = Some([shape |-> <<2, 2>>, grid |-> << <<10, 20>>, <<30, 40>> >>])

\* C6: with P >= 1 the offset is (P-1)*R whatever L and S are (200 for P=3,
\* R=100), and a decode yields exactly L*S samples, sample k being
\* b[off+2k] + 256*b[off+2k+1], each within 0..65535.
C6_LittleEndianSamples ==
    (MetaComplete /\ mP >= 1) =>
        /\ offset # None => offset = Some((mP - 1) * mR)
        /\ (offset # None /\ mP = 3 /\ mR = 100) => offset = Some(200)
        /\ pc = "done" =>
             LET flat == Ravel(Get(data).grid)
             IN  /\ Len(flat) = mL * mS
                 /\ \A k \in 0..(mL * mS - 1) :
                        /\ flat[k + 1] = Sample(Entry, (mP - 1) * mR, k)
                        /\ flat[k + 1] \in 0..65535
\* C6 witness: one sample, 65535, decoded from byte 2 of the buffer.
C6_Witness ==
    /\ pc = "done" /\ offset = Some(2) /\ Entry = <<0, 0, 255, 255>>
    /\ data = Some([shape |-> <<1, 1>>, grid |-> << <<65535>> >>])

\* C7: when offset + 2*L*S exceeds the buffer's length the unpack cell
\* fails with struct.error and leaves no grid.
UnpackRan == samples # None /\ pc # "unpack"
C7_TruncatedIsAnError ==
    (UnpackRan /\ Get(offset) + 2 * Get(samples) > Len(Entry)) =>
        pc = "failed" /\ err = Some("struct.error") /\ data = None
\* C7 witness: two samples asked of a buffer that holds one from the offset.
C7_Witness ==
    /\ pc = "failed" /\ err = Some("struct.error")
    /\ offset = Some(2) /\ samples = Some(2) /\ Len(Entry) = 4

\* C8: round trip.  The L by S grid G whose samples stand, row by row, as
\* little-endian pairs at the offset is what the unpacker returns, shape
\* and values.
WrittenGrid ==
    [i \in 1..mL |-> [j \in 1..mS |->
        Sample(Entry, Get(offset), (i - 1) * mS + (j - 1))]]
C8_RoundTrip ==
    (pc = "done" /\ mP >= 1
        /\ SubSeq(Entry, Get(offset) + 1, Get(offset) + 2 * mL * mS)
               = EncodeLE(Ravel(WrittenGrid))) =>
        data = Some([shape |-> <<mL, mS>>, grid |-> WrittenGrid])

\* ------------------------------------------------------------ error kinds
\* C9: each of the four failures surfaces as an error, and the four errors
\* differ: (a) no DATA entry, (b) label exhausted without END, (c) a label
\* without ^IMAGE, RECORD_BYTES, LINES or LINE_SAMPLES, (d) a decode past
\* the end of the buffer.
C9_FourDistinctErrors ==
    /\ []((LocatorRan /\ DataEntries(zipfiles) = {}) =>
            (pc = "failed" /\ err = Some("IndexError")))
    /\ []((Pds3 /\ meta # None /\ ~MetaComplete /\ pc \notin {"offset", "samples"}) =>
            (pc = "failed" /\ err = Some("KeyError")))
    /\ []((Pds3 /\ UnpackRan /\ Get(offset) + 2 * Get(samples) > Len(Entry)) =>
            (pc = "failed" /\ err = Some("struct.error")))
    /\ [][(pc = "loop" /\ ~HasEndLine(Entry) /\ line = <<>>) =>
            (/\ pc' = "failed" /\ err' # None
             /\ Get(err') \notin {"IndexError", "KeyError", "struct.error"})]_vars

\* ----------------------------------------------------------------- purity
\* The bytes suffice for n samples from off (a negative off counts from the end).
Fits(b, off, n) ==
    IF off >= 0 THEN off + 2 * n <= Len(b)
    ELSE off + 2 * n <= 0 /\ off + Len(b) >= 0
\* The grid as a function of the bytes and the four integers alone.
PureGrid(b, P, R, L, S) ==
    LET off == (P - 1) * R
        at  == IF off < 0 THEN off + Len(b) ELSE off
    IN  [shape |-> <<S, L>>,
         grid |-> [i \in 1..S |-> [j \in 1..L |->
                      Sample(b, at, (i - 1) * L + (j - 1))]]]
UnpackStep == pc \in {"unpack", "done", "rebound"} /\ pc' \in {"done", "failed"}

\* C10: whatever ran before (the label read, an earlier decode, the second
\* download), a run of the unpack cell leaves the grid, or the error, that
\* the entry's bytes and P, R, L, S alone determine, and changes nothing else.
C10_PureUnpack ==
    /\ [](pc = "done" =>
            /\ HasEntry(zip, Get(data_file))
            /\ Fits(Entry, (mP - 1) * mR, mL * mS)
            /\ data = Some(PureGrid(Entry, mP, mR, mL, mS)))
    /\ []((pc = "failed" /\ samples # None) =>
            IF HasEntry(zip, Get(data_file))
            THEN ~Fits(Entry, (mP - 1) * mR, mL * mS) /\ err = Some("struct.error")
            ELSE err = Some("KeyError"))
    /\ [][UnpackStep =>
            /\ UNCHANGED <<r, zip, zipfiles, data_file, label, meta, offset, rows,
                           cols, samples, pos, nread, line, lines, handles>>
            /\ pc' = "failed" => data' = data]_vars
\* C10 witness: after the second download the cell has run again, on other
\* bytes under the same name, and left their grid.
C10_Witness ==
    /\ pc = "done" /\ r = Some("mcam") /\ Get(meta) = Meta(2, 8, 1, 2)
    /\ data = Some([shape |-> <<2, 1>>, grid |-> << <<65535>>, <<1>> >>])

\* ----------------------------------------------------------- termination
\* C11: the label reader leaves its loop within (lines of the entry + 1)
\* reads: once a read has returned the empty string of end-of-entry, no
\* further read is made.
C11_ReaderStopsAtEndOfEntry ==
    (Pds3 /\ pc = "loop") => nread <= Len(EntryLines(Entry)) + 1

\* -------------------------------------------------------- locator policy
Scanned(l) == {i \in 1..(Len(l) - 1) : SecondIsData(l[i])}
FirstScanned(l) == CHOOSE i \in Scanned(l) : \A j \in Scanned(l) : i <= j
\* C12: the locator returns the earliest entry, the last one set aside,
\* whose second segment is DATA, without an error whenever there is one;
\* it never returns the last entry.
C12_FirstMatchBeforeTheLast ==
    LocatorRan =>
        /\ Scanned(zipfiles) # {} =>
               data_file = Some(zipfiles[FirstScanned(zipfiles)])
        /\ Scanned(zipfiles) = {} => data_file = None

\* ---------------------------------------------------------- entry handles
\* C13: every handle opened on the selected entry is released.  None is
\* open outside the label reader, the unpack cell included, whether a step
\* returned or raised; and the reader's own handle is released by the step
\* that follows a read hitting the end of the entry.
C13_HandlesReleased ==
    /\ []((Pds3 /\ ~InReader) => handles = 0)
    /\ [][(Pds3 /\ pc = "loop" /\ line = <<>>) => handles' = 0]_vars

\* ------------------------------------------------------- negative offsets
\* C14: a grid is returned only when 0 <= offset and offset + 2*L*S fits
\* the buffer, and its samples are then the bytes from that offset on,
\* counted from the start of the entry; a negative offset makes the
\* decode fail.
C14_NoWrapFromTheEnd ==
    /\ pc = "done" =>
         /\ Get(offset) >= 0
         /\ Get(offset) + 2 * mL * mS <= Len(Entry)
         /\ \A k \in 0..(mL * mS - 1) :
                Ravel(Get(data).grid)[k + 1] = Sample(Entry, Get(offset), k)
    /\ (UnpackRan /\ Get(offset) < 0) => (pc = "failed" /\ data = None)

====
